---- MODULE Spec2Model ----
(***************************************************************************)
(* A model of the notebook "From Notebook to Pipeline":                    *)
(*   - the notebook's orchestration cells (job submission, endpoint and    *)
(*     deployment creation, traffic update) against the managed platform;  *)
(*   - inference.py (init / run) under its hosting runtime;                *)
(*   - train_job.py.                                                       *)
(* Python strings that are paths or request bodies are sequences of        *)
(* tokens, so that concatenation, os.path.join, path resolution, JSON      *)
(* parsing and pickling are computed and not assumed.                      *)
(***************************************************************************)
EXTENDS Integers, Sequences, FiniteSets, TLC

VARIABLES
    \* ---- notebook orchestration cells and the managed platform ----
    local,                \* the cell's `local` flag
    pc,                   \* position of the notebook's control thread
    error,                \* the exception that stopped the control thread
    job,                  \* platform: state of the submitted training job
    registered,           \* platform: model "dummy-model":1 is in the registry
    platform_endpoint,    \* platform: lifecycle state of the endpoint
    platform_deployment,  \* platform: lifecycle state of deployment "blue"
    platform_traffic,     \* platform: the endpoint's traffic map
    endpoint_traffic,     \* the local descriptor's endpoint.traffic
    endpoint_at_deploy,   \* endpoint state seen when the deployment create was issued
    \* ---- inference.py ----
    host,                 \* who runs inference.py: "main" or "server"
    environ,              \* value of AZUREML_MODEL_DIR, or None
    spc,                  \* position of the runtime instance
    model,                \* the process-wide `model` global
    model_path,           \* init's local model_path
    init_calls,           \* number of init() invocations
    model_writes,         \* number of writes to `model`
    req,                  \* one record per request thread
    \* ---- train_job.py ----
    tpc,                  \* position of the training script
    input_asset,          \* args.input_asset
    output_asset,         \* args.output_asset
    written,              \* resolved paths the training script wrote
    \* ---- the filesystem both scripts see ----
    files,                \* resolved path -> file content
    \* ---- a single call of run() on an arbitrary body ----
    body,                 \* the raw request body
    outcome,              \* result of run(body)
    \* ---- the authentication and workspace client cells ----
    cpc,                  \* position of the user in these cells
    tenant_id,            \* the notebook's tenant_id
    credential,           \* the notebook global `credential`
    creations,            \* number of assignments to `credential`
    flows,                \* per strategy: outcome of its get_token, if run
    executed,             \* the credential cells the user has run
    ml_client,            \* the credential held by ml_client
    calls                 \* the credential used by each later client call

deployVars == <<local, pc, error, job, registered, platform_endpoint,
                platform_deployment, platform_traffic, endpoint_traffic,
                endpoint_at_deploy>>
scoringVars == <<host, environ, spc, model, model_path, init_calls,
                 model_writes, req>>
trainVars == <<tpc, input_asset, output_asset, written>>
runVars == <<body, outcome>>
credVars == <<cpc, tenant_id, credential, creations, flows, executed,
              ml_client, calls>>
vars == <<deployVars, scoringVars, trainVars, files, runVars, credVars>>

None == "None"

(***************************************************************************)
(* Notebook orchestration: job submission and the endpoint deployment cell *)
(***************************************************************************)

DeploymentNames == {"blue"}

EmptyTraffic == [d \in {} |-> 0]

BlueWeight == 100

\* endpoint.traffic = {"blue": 100}
BlueTraffic == [d \in {"blue"} |-> BlueWeight]

RECURSIVE SumOver(_, _)
SumOver(f, S) ==
    IF S = {} THEN 0
    ELSE LET d == CHOOSE x \in S : TRUE IN f[d] + SumOver(f, S \ {d})

\* the sum of the weight percentages of a traffic map
SumWeights(traffic) == SumOver(traffic, DOMAIN traffic)

Raise(e) == pc' = "raised" /\ error' = e

\* job = ml_client.jobs.create_or_update(train_job): returns at once, the
\* job runs on the platform
SubmitJob ==
    /\ pc = "submit_job"
    /\ job' = "running"
    /\ pc' = "create_endpoint"
    /\ UNCHANGED <<local, error, registered, platform_endpoint,
                   platform_deployment, platform_traffic, endpoint_traffic,
                   endpoint_at_deploy>>
    /\ UNCHANGED <<scoringVars, trainVars, files, runVars, credVars>>

\* endpoint = ManagedOnlineEndpoint(...);
\* endpoint_poller = ml_client.begin_create_or_update(endpoint, local=local)
CreateEndpoint ==
    /\ pc = "create_endpoint"
    /\ platform_endpoint' = "creating"
    /\ endpoint_traffic' = EmptyTraffic
    /\ pc' = "get_model"
    /\ UNCHANGED <<local, error, job, registered, platform_deployment,
                   platform_traffic, endpoint_at_deploy>>
    /\ UNCHANGED <<scoringVars, trainVars, files, runVars, credVars>>

\* a variant that waits for the training job to finish before the lookup
GetModelAfterJob ==
    /\ pc = "get_model"
    /\ job \in {"completed", "failed"}
    /\ IF local \/ registered
       THEN pc' = "wait_endpoint" /\ error' = error
       ELSE Raise("ResourceNotFound")
    /\ UNCHANGED <<local, job, registered, platform_endpoint,
                   platform_deployment, platform_traffic, endpoint_traffic,
                   endpoint_at_deploy>>
    /\ UNCHANGED <<scoringVars, trainVars, files, runVars, credVars>>

\* a variant that deletes the endpoint again when the lookup fails
GetModelWithRollback ==
    /\ pc = "get_model"
    /\ IF local \/ registered
       THEN /\ pc' = "wait_endpoint" /\ error' = error
            /\ platform_endpoint' = platform_endpoint
       ELSE /\ Raise("ResourceNotFound")
            /\ platform_endpoint' = "absent"
    /\ UNCHANGED <<local, job, registered, platform_deployment,
                   platform_traffic, endpoint_traffic, endpoint_at_deploy>>
    /\ UNCHANGED <<scoringVars, trainVars, files, runVars, credVars>>

\* if local: model = Model(path=...) else: model = ml_client.models.get(...)
\* followed by the local construction of code_config and blue_deployment
GetModel ==
    /\ pc = "get_model"
    /\ IF local \/ registered
       THEN pc' = "wait_endpoint" /\ error' = error
       ELSE Raise("ResourceNotFound")
    /\ UNCHANGED <<local, job, registered, platform_endpoint,
                   platform_deployment, platform_traffic, endpoint_traffic,
                   endpoint_at_deploy>>
    /\ UNCHANGED <<scoringVars, trainVars, files, runVars, credVars>>

\* a variant whose wait returns although the endpoint failed
WaitEndpointSwallowsFailure ==
    /\ pc = "wait_endpoint"
    /\ local \/ platform_endpoint \in {"ready", "failed"}
    /\ pc' = "create_deployment"
    /\ UNCHANGED <<local, error, job, registered, platform_endpoint,
                   platform_deployment, platform_traffic, endpoint_traffic,
                   endpoint_at_deploy>>
    /\ UNCHANGED <<scoringVars, trainVars, files, runVars, credVars>>

\* a variant that does not block on the endpoint's handle
WaitEndpointNoBlock ==
    /\ pc = "wait_endpoint"
    /\ pc' = "create_deployment"
    /\ UNCHANGED <<local, error, job, registered, platform_endpoint,
                   platform_deployment, platform_traffic, endpoint_traffic,
                   endpoint_at_deploy>>
    /\ UNCHANGED <<scoringVars, trainVars, files, runVars, credVars>>

\* if not local: endpoint_poller.result()
WaitEndpoint ==
    /\ pc = "wait_endpoint"
    /\ IF local
       THEN pc' = "create_deployment" /\ error' = error
       ELSE \/ /\ platform_endpoint = "ready"
               /\ pc' = "create_deployment" /\ error' = error
            \/ /\ platform_endpoint = "failed"
               /\ Raise("EndpointProvisioningFailed")
    /\ UNCHANGED <<local, job, registered, platform_endpoint,
                   platform_deployment, platform_traffic, endpoint_traffic,
                   endpoint_at_deploy>>
    /\ UNCHANGED <<scoringVars, trainVars, files, runVars, credVars>>

\* deployment_poller = ml_client.begin_create_or_update(blue_deployment, local=local)
CreateDeployment ==
    /\ pc = "create_deployment"
    /\ platform_deployment' = "creating"
    /\ endpoint_at_deploy' = platform_endpoint
    /\ pc' = "wait_deployment"
    /\ UNCHANGED <<local, error, job, registered, platform_endpoint,
                   platform_traffic, endpoint_traffic>>
    /\ UNCHANGED <<scoringVars, trainVars, files, runVars, credVars>>

\* a variant that does not block on the deployment's handle
WaitDeploymentNoBlock ==
    /\ pc = "wait_deployment"
    /\ pc' = "set_traffic"
    /\ UNCHANGED <<local, error, job, registered, platform_endpoint,
                   platform_deployment, platform_traffic, endpoint_traffic,
                   endpoint_at_deploy>>
    /\ UNCHANGED <<scoringVars, trainVars, files, runVars, credVars>>

\* deployment_poller.result()
WaitDeployment ==
    /\ pc = "wait_deployment"
    /\ \/ /\ platform_deployment = "ready"
          /\ pc' = "set_traffic" /\ error' = error
       \/ /\ platform_deployment = "failed"
          /\ Raise("DeploymentProvisioningFailed")
    /\ UNCHANGED <<local, job, registered, platform_endpoint,
                   platform_deployment, platform_traffic, endpoint_traffic,
                   endpoint_at_deploy>>
    /\ UNCHANGED <<scoringVars, trainVars, files, runVars, credVars>>

\* a variant that gives blue half of the traffic
SetTrafficHalf ==
    /\ pc = "set_traffic"
    /\ endpoint_traffic' = [d \in {"blue"} |-> 50]
    /\ pc' = "update_endpoint"
    /\ UNCHANGED <<local, error, job, registered, platform_endpoint,
                   platform_deployment, platform_traffic, endpoint_at_deploy>>
    /\ UNCHANGED <<scoringVars, trainVars, files, runVars, credVars>>

\* endpoint.traffic = {"blue": 100}
SetTraffic ==
    /\ pc = "set_traffic"
    /\ endpoint_traffic' = BlueTraffic
    /\ pc' = "update_endpoint"
    /\ UNCHANGED <<local, error, job, registered, platform_endpoint,
                   platform_deployment, platform_traffic, endpoint_at_deploy>>
    /\ UNCHANGED <<scoringVars, trainVars, files, runVars, credVars>>

\* ml_client.begin_create_or_update(endpoint, local=runner_config.local):
\* the name runner_config is bound nowhere in the notebook, so evaluating the
\* argument raises NameError before the call is made
UpdateEndpoint ==
    /\ pc = "update_endpoint"
    /\ Raise("NameError")
    /\ UNCHANGED <<local, job, registered, platform_endpoint,
                   platform_deployment, platform_traffic, endpoint_traffic,
                   endpoint_at_deploy>>
    /\ UNCHANGED <<scoringVars, trainVars, files, runVars, credVars>>

\* ---- the managed platform and the user at the studio UI ----

JobCompletes ==
    /\ job = "running"
    /\ job' \in {"completed", "failed"}
    /\ UNCHANGED <<local, pc, error, registered, platform_endpoint,
                   platform_deployment, platform_traffic, endpoint_traffic,
                   endpoint_at_deploy>>
    /\ UNCHANGED <<scoringVars, trainVars, files, runVars, credVars>>

\* "register the model you created manually via the studio ui"
RegisterModel ==
    /\ job = "completed"
    /\ ~registered
    /\ registered' = TRUE
    /\ UNCHANGED <<local, pc, error, job, platform_endpoint,
                   platform_deployment, platform_traffic, endpoint_traffic,
                   endpoint_at_deploy>>
    /\ UNCHANGED <<scoringVars, trainVars, files, runVars, credVars>>

EndpointProvisioning ==
    /\ platform_endpoint = "creating"
    /\ platform_endpoint' \in {"ready", "failed"}
    /\ UNCHANGED <<local, pc, error, job, registered, platform_deployment,
                   platform_traffic, endpoint_traffic, endpoint_at_deploy>>
    /\ UNCHANGED <<scoringVars, trainVars, files, runVars, credVars>>

\* a deployment becomes ready only behind a ready endpoint
DeploymentProvisioning ==
    /\ platform_deployment = "creating"
    /\ \/ platform_endpoint = "ready" /\ platform_deployment' = "ready"
       \/ platform_deployment' = "failed"
    /\ UNCHANGED <<local, pc, error, job, registered, platform_endpoint,
                   platform_traffic, endpoint_traffic, endpoint_at_deploy>>
    /\ UNCHANGED <<scoringVars, trainVars, files, runVars, credVars>>

DeployInit ==
    /\ local \in BOOLEAN
    /\ pc = "submit_job"
    /\ error = None
    /\ job = "none"
    /\ registered = FALSE
    /\ platform_endpoint = "absent"
    /\ platform_deployment = "absent"
    /\ platform_traffic = EmptyTraffic
    /\ endpoint_traffic = EmptyTraffic
    /\ endpoint_at_deploy = None

DeployNext ==
    \/ SubmitJob
    \/ CreateEndpoint
    \/ GetModel
    \/ WaitEndpoint
    \/ CreateDeployment
    \/ WaitDeployment
    \/ SetTraffic
    \/ UpdateEndpoint
    \/ JobCompletes
    \/ RegisterModel
    \/ EndpointProvisioning
    \/ DeploymentProvisioning

(***************************************************************************)
(* JSON documents and json.loads.  A request body is a sequence of tokens; *)
(* a parsed document is a node [t, s, n, kids].                            *)
(***************************************************************************)

StrTokens == {"\"question\"", "\"Answer\""}
NumTokens == {"7"}
Tokens == {"{", "}", "[", "]", ":", ","} \cup StrTokens \cup NumTokens

\* the Python str a string literal denotes
StrValue(tok) == IF tok = "\"question\"" THEN "question" ELSE "Answer"

\* the Python int a number literal denotes
NumValue(tok) == 7

MkStr(s) == [t |-> "str", s |-> s, n |-> 0, kids |-> <<>>]
MkInt(n) == [t |-> "int", s |-> "", n |-> n, kids |-> <<>>]
MkList(kids) == [t |-> "list", s |-> "", n |-> 0, kids |-> kids]
MkItem(k, v) == [t |-> "item", s |-> k, n |-> 0, kids |-> <<v>>]
MkDict(items) == [t |-> "dict", s |-> "", n |-> 0, kids |-> items]
NoneNode == [t |-> "none", s |-> "", n |-> 0, kids |-> <<>>]

\* d[k] = v on the item list of a dict: an existing key keeps its place
RECURSIVE DictSet(_, _, _)
DictSet(items, k, v) ==
    IF items = <<>> THEN <<MkItem(k, v)>>
    ELSE IF Head(items).s = k THEN <<MkItem(k, v)>> \o Tail(items)
    ELSE <<Head(items)>> \o DictSet(Tail(items), k, v)

\* dict(pairs)
RECURSIVE DictOf(_, _)
DictOf(pairs, acc) ==
    IF pairs = <<>> THEN acc
    ELSE DictOf(Tail(pairs), DictSet(acc, Head(pairs)[1], Head(pairs)[2]))

ParseOk(v, rest) == [ok |-> TRUE, val |-> v, rest |-> rest]
ParseFail == [ok |-> FALSE, val |-> NoneNode, rest |-> <<>>]

RECURSIVE ParseValue(_), ArrayLoop(_, _), ObjectLoop(_, _)

\* json.decoder.JSONArray, after the opening bracket
ParseArray(toks) ==
    IF toks # <<>> /\ Head(toks) = "]"
    THEN ParseOk(MkList(<<>>), Tail(toks))
    ELSE ArrayLoop(toks, <<>>)

ArrayLoop(toks, acc) ==
    LET v == ParseValue(toks) IN
    IF ~v.ok THEN ParseFail
    ELSE LET r == v.rest
             acc2 == Append(acc, v.val)
         IN IF r = <<>> THEN ParseFail
            ELSE IF Head(r) = "]" THEN ParseOk(MkList(acc2), Tail(r))
            ELSE IF Head(r) # "," THEN ParseFail
            ELSE ArrayLoop(Tail(r), acc2)

\* json.decoder.JSONObject, after the opening brace
ParseObject(toks) ==
    IF toks = <<>> THEN ParseFail
    ELSE IF Head(toks) \notin StrTokens
         THEN IF Head(toks) = "}"
              THEN ParseOk(MkDict(<<>>), Tail(toks))
              ELSE ParseFail
         ELSE ObjectLoop(toks, <<>>)

ObjectLoop(toks, pairs) ==
    LET key == StrValue(Head(toks))
        r1 == Tail(toks)
    IN IF r1 = <<>> \/ Head(r1) # ":" THEN ParseFail
       ELSE LET v == ParseValue(Tail(r1)) IN
            IF ~v.ok THEN ParseFail
            ELSE LET r == v.rest
                     pairs2 == Append(pairs, <<key, v.val>>)
                 IN IF r = <<>> THEN ParseFail
                    ELSE IF Head(r) = "}"
                         THEN ParseOk(MkDict(DictOf(pairs2, <<>>)), Tail(r))
                    ELSE IF Head(r) # "," THEN ParseFail
                    ELSE IF Tail(r) = <<>> \/ Head(Tail(r)) \notin StrTokens
                         THEN ParseFail
                    ELSE ObjectLoop(Tail(r), pairs2)

\* json.scanner scan_once
ParseValue(toks) ==
    IF toks = <<>> THEN ParseFail
    ELSE LET c == Head(toks)
             r == Tail(toks)
         IN IF c \in StrTokens THEN ParseOk(MkStr(StrValue(c)), r)
            ELSE IF c \in NumTokens THEN ParseOk(MkInt(NumValue(c)), r)
            ELSE IF c = "{" THEN ParseObject(r)
            ELSE IF c = "[" THEN ParseArray(r)
            ELSE ParseFail

\* json.loads(s): a value followed by nothing, else JSONDecodeError
json_loads(s) ==
    LET r == ParseValue(s) IN
    IF r.ok /\ r.rest = <<>>
    THEN [ok |-> TRUE, val |-> r.val]
    ELSE [ok |-> FALSE, val |-> NoneNode]

Answer == 42

NotCalled == [kind |-> "not_called", exc |-> None, value |-> NoneNode]
Returned(v) == [kind |-> "return", exc |-> None, value |-> v]
Raised(e) == [kind |-> "raise", exc |-> e, value |-> NoneNode]

\* a variant that does not echo the request
ResponseAnswerOnly(data) ==
    MkDict(DictOf(<<<<"answer", MkInt(Answer)>>>>, <<>>))

\* the response document run builds from the parsed request
Response(data) ==
    MkDict(DictOf(<<<<"answer", MkInt(Answer)>>, <<"input", data>>>>, <<>>))

\* a variant that answers a parse fault with a default response
run_default_on_fault(input_data) ==
    LET data == json_loads(input_data) IN
    IF data.ok THEN Returned(Response(data.val))
    ELSE Returned(Response(NoneNode))

\* inference.py run(input_data)
run(input_data) ==
    LET data == json_loads(input_data) IN
    IF data.ok THEN Returned(Response(data.val))
    ELSE Raised("JSONDecodeError")

MaxBodyLen == 5

Bodies == UNION {[1..n -> Tokens] : n \in 0..MaxBodyLen}

\* one request: the hosting runtime passes the raw body to run()
CallRun ==
    /\ outcome = NotCalled
    /\ outcome' = run(body)
    /\ UNCHANGED <<body, deployVars, scoringVars, trainVars, files, credVars>>

RunInit ==
    /\ body \in Bodies
    /\ outcome = NotCalled

(***************************************************************************)
(* Paths and the filesystem.  A Python path string is a sequence of        *)
(* chunks: the separator "/" or a piece of a name.  A resolved path is the *)
(* sequence of its components from the filesystem root, each component the *)
(* sequence of the chunks of its name.                                     *)
(***************************************************************************)

Sep == "/"

\* the working directory of both scripts
Cwd == << <<"work">> >>

\* the components of a path string: the runs of chunks between separators
RECURSIVE Split(_, _)
Split(p, cur) ==
    IF p = <<>> THEN (IF cur = <<>> THEN <<>> ELSE <<cur>>)
    ELSE IF Head(p) = Sep
         THEN (IF cur = <<>> THEN <<>> ELSE <<cur>>) \o Split(Tail(p), <<>>)
         ELSE Split(Tail(p), Append(cur, Head(p)))

\* path resolution by the operating system: "." and empty components drop
\* out, a relative path starts at the working directory
Resolve(p) ==
    LET comps == SelectSeq(Split(p, <<>>), LAMBDA c : c # <<".">>)
    IN IF p # <<>> /\ Head(p) = Sep THEN comps ELSE Cwd \o comps

\* the directories that exist; neither script creates one
Dirs == { <<>>, Cwd, << <<"mnt">> >>, << <<"mnt">>, <<"model">> >>,
          Cwd \o << <<"model">> >>, Cwd \o << <<"out">> >> }

Parent(rp) == SubSeq(rp, 1, Len(rp) - 1)

\* os.path.join(a, b) of posixpath
os_path_join(a, b) ==
    IF b # <<>> /\ Head(b) = Sep THEN b
    ELSE IF a = <<>> \/ a[Len(a)] = Sep THEN a \o b
    ELSE a \o <<Sep>> \o b

\* the non-empty directory paths the scripts are given
Roots == { <<".", Sep>>, <<".">>, <<Sep, "mnt">>, <<Sep, "mnt", Sep>>,
           <<"out">>, <<"nodir">> }

(***************************************************************************)
(* Python objects and cloudpickle                                          *)
(***************************************************************************)

\* an instance: its class and its attributes as <<name, value>> pairs
Object(cls, attrs) == [cls |-> cls, attrs |-> attrs]

\* the global `model` before any assignment
Unbound == Object("<unbound>", <<>>)

\* Model("dummy model.") of train_job.py
DummyModel == Object("Model", << <<"dummy", "dummy model.">> >>)

RECURSIVE DumpAttrs(_)
DumpAttrs(attrs) ==
    IF attrs = <<>> THEN <<>>
    ELSE <<"ATTR", Head(attrs)[1], Head(attrs)[2]>> \o DumpAttrs(Tail(attrs))

\* cloudpickle.dump(obj, fh): the bytes written, as a sequence of opcodes
\* and operands
Dump(obj) ==
    <<"PROTO", "GLOBAL", obj.cls, "NEWOBJ">> \o DumpAttrs(obj.attrs)
        \o <<"BUILD", "STOP">>

RECURSIVE LoadAttrs(_, _)
LoadAttrs(bytes, acc) ==
    IF Len(bytes) >= 3 /\ Head(bytes) = "ATTR"
    THEN LoadAttrs(SubSeq(bytes, 4, Len(bytes)),
                   Append(acc, <<bytes[2], bytes[3]>>))
    ELSE [attrs |-> acc, rest |-> bytes]

\* cloudpickle.load(fh): the object, or an unpickling fault
Load(bytes) ==
    IF Len(bytes) >= 4 /\ SubSeq(bytes, 1, 2) = <<"PROTO", "GLOBAL">>
       /\ bytes[4] = "NEWOBJ"
    THEN LET r == LoadAttrs(SubSeq(bytes, 5, Len(bytes)), <<>>) IN
         IF r.rest = <<"BUILD", "STOP">>
         THEN [ok |-> TRUE, val |-> Object(bytes[3], r.attrs)]
         ELSE [ok |-> FALSE, val |-> Unbound]
    ELSE [ok |-> FALSE, val |-> Unbound]

(***************************************************************************)
(* inference.py under its runtime: the script's own __main__, or the       *)
(* hosting server that calls init() on startup and run() on every request  *)
(***************************************************************************)

\* "model/model.pickle"
ModelRelPath == <<"model", Sep, "model.pickle">>

\* model_dir = "" when the variable is unset
FallbackModelDir == <<>>

\* the body __main__ passes to run()
ExampleBody == <<"{", "\"question\"", ":", "\"Answer\"", "}">>

MaxRequests == 2

Threads == 1..MaxRequests

\* the bodies the hosting server receives
RequestBodies == {ExampleBody, <<"{">>, <<"[", "7", "]">>}

Idle == [pc |-> "idle", input_data |-> <<>>, data |-> NoneNode,
         result |-> NotCalled]

\* init() is entered: by __main__, or by the server on startup
InitCall ==
    /\ spc = "start"
    /\ spc' = "init_getenv"
    /\ init_calls' = init_calls + 1
    /\ UNCHANGED <<host, environ, model, model_path, model_writes, req>>
    /\ UNCHANGED <<deployVars, trainVars, files, runVars, credVars>>

\* a variant that ignores the environment variable
InitGetenvIgnoresEnv ==
    /\ spc = "init_getenv"
    /\ model_path' = os_path_join(FallbackModelDir, ModelRelPath)
    /\ spc' = "init_open"
    /\ UNCHANGED <<host, environ, model, init_calls, model_writes, req>>
    /\ UNCHANGED <<deployVars, trainVars, files, runVars, credVars>>

\* model_dir = os.getenv("AZUREML_MODEL_DIR"); if model_dir == None: ...;
\* model_path = os.path.join(model_dir, "model/model.pickle")
InitGetenv ==
    /\ spc = "init_getenv"
    /\ LET model_dir == IF ~environ.set THEN FallbackModelDir
                        ELSE environ.path
       IN model_path' = os_path_join(model_dir, ModelRelPath)
    /\ spc' = "init_open"
    /\ UNCHANGED <<host, environ, model, init_calls, model_writes, req>>
    /\ UNCHANGED <<deployVars, trainVars, files, runVars, credVars>>

\* with open(model_path, "rb") as fh: model = cloudpickle.load(fh)
InitLoad ==
    /\ spc = "init_open"
    /\ LET rp == Resolve(model_path) IN
       IF rp \notin DOMAIN files
       THEN /\ spc' = "crashed"
            /\ UNCHANGED <<model, model_writes>>
       ELSE LET r == Load(files[rp]) IN
            IF r.ok
            THEN /\ model' = r.val
                 /\ model_writes' = model_writes + 1
                 /\ spc' = "ready"
            ELSE /\ spc' = "crashed"
                 /\ UNCHANGED <<model, model_writes>>
    /\ UNCHANGED <<host, environ, model_path, init_calls, req>>
    /\ UNCHANGED <<deployVars, trainVars, files, runVars, credVars>>

\* a variant of the runtime that serves a request without waiting for init()
RunCallAnytime(i, b) ==
    /\ spc \in {"start", "init_getenv", "init_open", "ready"}
    /\ req[i].pc = "idle"
    /\ host = "server"
    /\ req' = [req EXCEPT ![i] = [Idle EXCEPT !.pc = "called",
                                              !.input_data = b]]
    /\ UNCHANGED <<host, environ, spc, model, model_path, init_calls,
                   model_writes>>
    /\ UNCHANGED <<deployVars, trainVars, files, runVars, credVars>>

\* run(input_data) is entered: once by __main__ after init() with the
\* example body, by the server on every call of the endpoint
RunCall(i, b) ==
    /\ spc = "ready"
    /\ req[i].pc = "idle"
    /\ host = "main" => i = 1 /\ b = ExampleBody
    /\ req' = [req EXCEPT ![i] = [Idle EXCEPT !.pc = "called",
                                              !.input_data = b]]
    /\ UNCHANGED <<host, environ, spc, model, model_path, init_calls,
                   model_writes>>
    /\ UNCHANGED <<deployVars, trainVars, files, runVars, credVars>>

\* data = json.loads(input_data)
RunLoads(i) ==
    /\ req[i].pc = "called"
    /\ LET data == json_loads(req[i].input_data) IN
       req' = [req EXCEPT ![i] =
                 IF data.ok
                 THEN [@ EXCEPT !.pc = "loaded", !.data = data.val]
                 ELSE [@ EXCEPT !.pc = "done",
                                !.result = Raised("JSONDecodeError")]]
    /\ UNCHANGED <<host, environ, spc, model, model_path, init_calls,
                   model_writes>>
    /\ UNCHANGED <<deployVars, trainVars, files, runVars, credVars>>

\* a variant of run that rebinds the global
RunReturnRebindsModel(i) ==
    /\ req[i].pc = "loaded"
    /\ req' = [req EXCEPT ![i] =
                 [@ EXCEPT !.pc = "done",
                           !.result = Returned(Response(req[i].data))]]
    /\ model' = Unbound
    /\ model_writes' = model_writes + 1
    /\ UNCHANGED <<host, environ, spc, model_path, init_calls>>
    /\ UNCHANGED <<deployVars, trainVars, files, runVars, credVars>>

\* return {"answer": 42, "input": data}
RunReturn(i) ==
    /\ req[i].pc = "loaded"
    /\ req' = [req EXCEPT ![i] =
                 [@ EXCEPT !.pc = "done",
                           !.result = Returned(Response(req[i].data))]]
    /\ UNCHANGED <<host, environ, spc, model, model_path, init_calls,
                   model_writes>>
    /\ UNCHANGED <<deployVars, trainVars, files, runVars, credVars>>

\* the server has sent the response and the thread takes the next request
NextRequest(i) ==
    /\ host = "server"
    /\ req[i].pc = "done"
    /\ req' = [req EXCEPT ![i] = Idle]
    /\ UNCHANGED <<host, environ, spc, model, model_path, init_calls,
                   model_writes>>
    /\ UNCHANGED <<deployVars, trainVars, files, runVars, credVars>>

\* __main__ has printed the result of run() and the script ends
MainExit ==
    /\ host = "main"
    /\ spc = "ready"
    /\ req[1].pc = "done"
    /\ spc' = "exited"
    /\ UNCHANGED <<host, environ, model, model_path, init_calls,
                   model_writes, req>>
    /\ UNCHANGED <<deployVars, trainVars, files, runVars, credVars>>

\* an environment value: unset (os.getenv gives None), or set to a
\* directory path
Unset == [set |-> FALSE, path |-> <<>>]
EnvValues == {Unset} \cup {[set |-> TRUE, path |-> r] : r \in Roots}

\* the places the scripts read or write, each holding nothing or some file
ModelPlaces == { << <<"mnt">>, <<"model">>, <<"model.pickle">> >>,
                 Cwd \o << <<"model">>, <<"model.pickle">> >>,
                 Cwd \o << <<"model.pickle">> >> }

\* pickled objects found there
Artifacts == { Dump(DummyModel),
               Dump(Object("Model", << <<"dummy", "trained">>,
                                       <<"epochs", "3">> >>)) }

\* file contents found there: the artifacts and a truncated file
Contents == Artifacts \cup { <<"PROTO", "GLOBAL">> }

FileSystems == UNION {[S -> Contents] : S \in SUBSET ModelPlaces}

ScoringInit ==
    /\ host \in {"main", "server"}
    /\ environ \in EnvValues
    /\ spc = "start"
    /\ model = Unbound
    /\ model_path = <<>>
    /\ init_calls = 0
    /\ model_writes = 0
    /\ req = [i \in Threads |-> Idle]

ScoringNext ==
    \/ InitCall
    \/ InitGetenv
    \/ InitLoad
    \/ \E i \in Threads, b \in RequestBodies : RunCall(i, b)
    \/ \E i \in Threads : RunLoads(i)
    \/ \E i \in Threads : RunReturn(i)
    \/ \E i \in Threads : NextRequest(i)
    \/ MainExit

(***************************************************************************)
(* train_job.py                                                            *)
(***************************************************************************)

\* a variant that saves the model under <output>/model/
ArtifactSuffixUnderModel == <<Sep>> \o ModelRelPath

\* "/model.pickle"
ArtifactSuffix == <<Sep, "model.pickle">>

\* a command-line argument: absent (argparse gives None) or a path
NoArg == [given |-> FALSE, path |-> <<>>]
ArgValues == {NoArg} \cup {[given |-> TRUE, path |-> r] : r \in Roots}

\* args = parse_args(); the two prints;
\* print("input dataset files:", os.listdir(args.input_asset))
\* os.listdir(None) lists the working directory
ListInput ==
    /\ tpc = "start"
    /\ LET dir == IF input_asset.given THEN Resolve(input_asset.path)
                  ELSE Cwd
       IN tpc' = IF dir \in Dirs THEN "open" ELSE "failed"
    /\ UNCHANGED <<input_asset, output_asset, written, files>>
    /\ UNCHANGED <<deployVars, scoringVars, runVars, credVars>>

\* model = Model("dummy model.");
\* open(args.output_asset+"/model.pickle", "wb"): creates or truncates the
\* file; None + str is a TypeError, a missing directory a FileNotFoundError
OpenOutput ==
    /\ tpc = "open"
    /\ IF ~output_asset.given
       THEN tpc' = "failed" /\ UNCHANGED <<files, written>>
       ELSE LET rp == Resolve(output_asset.path \o ArtifactSuffix)
            IN IF Parent(rp) \in Dirs /\ rp \notin Dirs
               THEN /\ files' = [q \in DOMAIN files \cup {rp} |->
                                   IF q = rp THEN <<>> ELSE files[q]]
                    /\ written' = written \cup {rp}
                    /\ tpc' = "dump"
               ELSE tpc' = "failed" /\ UNCHANGED <<files, written>>
    /\ UNCHANGED <<input_asset, output_asset>>
    /\ UNCHANGED <<deployVars, scoringVars, runVars, credVars>>

\* cloudpickle.dump(model, fh), and the file is closed
DumpModel ==
    /\ tpc = "dump"
    /\ LET rp == Resolve(output_asset.path \o ArtifactSuffix)
       IN files' = [files EXCEPT ![rp] = Dump(DummyModel)]
    /\ tpc' = "done"
    /\ UNCHANGED <<input_asset, output_asset, written>>
    /\ UNCHANGED <<deployVars, scoringVars, runVars, credVars>>

TrainInit ==
    /\ tpc = "start"
    /\ input_asset \in ArgValues
    /\ output_asset \in ArgValues
    /\ written = {}

TrainNext ==
    \/ ListInput
    \/ OpenOutput
    \/ DumpModel

(***************************************************************************)
(* The authentication cells and the workspace client.  The user goes       *)
(* through the cells from top to bottom and runs or leaves out each of the *)
(* two credential cells ("Choose the one that works for you").             *)
(***************************************************************************)

Strategies == {"InteractiveBrowserCredential", "AzureCliCredential"}

\* the values the user gives tenant_id
TenantIds == {"", "tenant"}

NoCredential == [kind |-> "unbound", tenant |-> ""]

\* the calls made through ml_client further down the notebook, in order
ClientCalls == <<"data.list", "jobs.create_or_update",
                 "begin_create_or_update", "models.get">>

\* credential = InteractiveBrowserCredential(tenant_id=tenant_id)
BrowserNew ==
    /\ cpc = "browser_cell"
    /\ credential' = [kind |-> "InteractiveBrowserCredential",
                      tenant |-> tenant_id]
    /\ creations' = creations + 1
    /\ executed' = executed \cup {"InteractiveBrowserCredential"}
    /\ cpc' = "browser_token"
    /\ UNCHANGED <<tenant_id, flows, ml_client, calls>>
    /\ UNCHANGED <<deployVars, scoringVars, trainVars, files, runVars>>

\* credential.get_token(token_url): the browser flow completes or raises
BrowserToken ==
    /\ cpc = "browser_token"
    /\ \E r \in {"ok", "failed"} :
          flows' = [flows EXCEPT !["InteractiveBrowserCredential"] = r]
    /\ cpc' = "cli_cell"
    /\ UNCHANGED <<tenant_id, credential, creations, executed, ml_client,
                   calls>>
    /\ UNCHANGED <<deployVars, scoringVars, trainVars, files, runVars>>

\* the user leaves the browser cell out
BrowserSkip ==
    /\ cpc = "browser_cell"
    /\ cpc' = "cli_cell"
    /\ UNCHANGED <<tenant_id, credential, creations, flows, executed,
                   ml_client, calls>>
    /\ UNCHANGED <<deployVars, scoringVars, trainVars, files, runVars>>

\* credential = AzureCliCredential()
CliNew ==
    /\ cpc = "cli_cell"
    /\ credential' = [kind |-> "AzureCliCredential", tenant |-> ""]
    /\ creations' = creations + 1
    /\ executed' = executed \cup {"AzureCliCredential"}
    /\ cpc' = "cli_token"
    /\ UNCHANGED <<tenant_id, flows, ml_client, calls>>
    /\ UNCHANGED <<deployVars, scoringVars, trainVars, files, runVars>>

\* credential.get_token(token_url): the az login session gives a token or
\* the call raises
CliToken ==
    /\ cpc = "cli_token"
    /\ \E r \in {"ok", "failed"} :
          flows' = [flows EXCEPT !["AzureCliCredential"] = r]
    /\ cpc' = "client_cell"
    /\ UNCHANGED <<tenant_id, credential, creations, executed, ml_client,
                   calls>>
    /\ UNCHANGED <<deployVars, scoringVars, trainVars, files, runVars>>

\* the user leaves the CLI cell out
CliSkip ==
    /\ cpc = "cli_cell"
    /\ cpc' = "client_cell"
    /\ UNCHANGED <<tenant_id, credential, creations, flows, executed,
                   ml_client, calls>>
    /\ UNCHANGED <<deployVars, scoringVars, trainVars, files, runVars>>

\* a variant that builds the client on a credential of its own
CreateClientOwnCredential ==
    /\ cpc = "client_cell"
    /\ ml_client' = [kind |-> "DefaultAzureCredential", tenant |-> tenant_id]
    /\ cpc' = "calls"
    /\ UNCHANGED <<tenant_id, credential, creations, flows, executed, calls>>
    /\ UNCHANGED <<deployVars, scoringVars, trainVars, files, runVars>>

\* ml_client = MLClient(credential=credential, ...): NameError when no
\* credential cell was run
CreateClient ==
    /\ cpc = "client_cell"
    /\ IF credential = NoCredential
       THEN cpc' = "name_error" /\ ml_client' = ml_client
       ELSE cpc' = "calls" /\ ml_client' = credential
    /\ UNCHANGED <<tenant_id, credential, creations, flows, executed, calls>>
    /\ UNCHANGED <<deployVars, scoringVars, trainVars, files, runVars>>

\* list(ml_client.data.list()) and the later calls through ml_client: each
\* authenticates with the credential the client holds
ClientCall ==
    /\ cpc = "calls"
    /\ Len(calls) < Len(ClientCalls)
    /\ calls' = Append(calls, ml_client)
    /\ UNCHANGED <<cpc, tenant_id, credential, creations, flows, executed,
                   ml_client>>
    /\ UNCHANGED <<deployVars, scoringVars, trainVars, files, runVars>>

CredInit ==
    /\ cpc = "browser_cell"
    /\ tenant_id \in TenantIds
    /\ credential = NoCredential
    /\ creations = 0
    /\ flows = [s \in Strategies |-> "none"]
    /\ executed = {}
    /\ ml_client = NoCredential
    /\ calls = <<>>

CredRest ==
    /\ cpc = "browser_cell"
    /\ tenant_id = ""
    /\ credential = NoCredential
    /\ creations = 0
    /\ flows = [s \in Strategies |-> "none"]
    /\ executed = {}
    /\ ml_client = NoCredential
    /\ calls = <<>>

CredNext ==
    \/ BrowserNew
    \/ BrowserToken
    \/ BrowserSkip
    \/ CliNew
    \/ CliToken
    \/ CliSkip
    \/ CreateClient
    \/ ClientCall

(***************************************************************************)
(* Specifications: one per component, the other components at rest         *)
(***************************************************************************)

DeployRest ==
    /\ local = FALSE
    /\ pc = "submit_job"
    /\ error = None
    /\ job = "none"
    /\ registered = FALSE
    /\ platform_endpoint = "absent"
    /\ platform_deployment = "absent"
    /\ platform_traffic = EmptyTraffic
    /\ endpoint_traffic = EmptyTraffic
    /\ endpoint_at_deploy = None

ScoringRest ==
    /\ host = "main"
    /\ environ = Unset
    /\ spc = "start"
    /\ model = Unbound
    /\ model_path = <<>>
    /\ init_calls = 0
    /\ model_writes = 0
    /\ req = [i \in Threads |-> Idle]

TrainRest ==
    /\ tpc = "start"
    /\ input_asset = NoArg
    /\ output_asset = NoArg
    /\ written = {}

RunRest ==
    /\ body = <<>>
    /\ outcome = NotCalled

NoFiles == [q \in {} |-> <<>>]

\* the notebook's orchestration cells against the platform
InitDeploy ==
    DeployInit /\ ScoringRest /\ TrainRest /\ RunRest /\ files = NoFiles
        /\ CredRest

SpecDeploy == InitDeploy /\ [][DeployNext]_vars

\* run() as a function of the request body
InitRun ==
    RunInit /\ DeployRest /\ ScoringRest /\ TrainRest /\ files = NoFiles
        /\ CredRest

SpecRun == InitRun /\ [][CallRun]_vars

\* one runtime instance of inference.py
InitScoring ==
    ScoringInit /\ DeployRest /\ TrainRest /\ RunRest /\ CredRest
        /\ files \in FileSystems

SpecScoring == InitScoring /\ [][ScoringNext]_vars

\* the authentication cells, the client cell and the calls through it
InitCred ==
    CredInit /\ DeployRest /\ ScoringRest /\ TrainRest /\ RunRest
        /\ files = NoFiles

SpecCred == InitCred /\ [][CredNext]_vars

\* one execution of train_job.py
InitTrain ==
    TrainInit /\ DeployRest /\ ScoringRest /\ RunRest /\ CredRest
        /\ files \in FileSystems

SpecTrain == InitTrain /\ [][TrainNext]_vars

(***************************************************************************)
(* Properties of the endpoint deployment cell (SpecDeploy)                 *)
(***************************************************************************)

\* C1, as stated: for local = True and local = False alike, the create call
\* for the blue deployment is issued only once the endpoint's create
\* operation has reached ready.
DeploymentCreateAfterEndpointReady ==
    endpoint_at_deploy # None => endpoint_at_deploy = "ready"

\* C1, amended: when local is False, the create call for the blue deployment
\* is issued only once the endpoint's create operation has reached ready
\* (with local = True the cell does not wait on the endpoint's handle).
RemoteDeploymentCreateAfterEndpointReady ==
    ~local => DeploymentCreateAfterEndpointReady

RemoteDeploymentCreateIssued ==
    ~local /\ endpoint_at_deploy = "ready" /\ platform_deployment = "creating"

\* C2: blue is given a nonzero traffic weight, and the traffic assignment
\* and the endpoint update are reached, only after the deployment is ready.
TrafficOnlyAfterDeploymentReady ==
    /\ pc \in {"set_traffic", "update_endpoint"}
          => platform_deployment = "ready"
    /\ \A d \in DOMAIN endpoint_traffic :
          endpoint_traffic[d] > 0 => platform_deployment = "ready"

BlueHasTraffic ==
    /\ "blue" \in DOMAIN endpoint_traffic
    /\ endpoint_traffic["blue"] > 0

\* C3: once the endpoint and the blue deployment have both been provisioned
\* and the workflow has come to its end, the endpoint update carrying the
\* traffic map has been submitted to the platform.
TrafficUpdateSubmitted ==
    (pc = "raised" /\ platform_endpoint = "ready"
        /\ platform_deployment = "ready")
      => platform_traffic = BlueTraffic

\* C4: after the last update of the endpoint's traffic map the weights of
\* all deployments sum to 100.
TrafficSumsTo100 ==
    (pc = "update_endpoint" \/ error = "NameError")
      => SumWeights(endpoint_traffic) = 100

TrafficAssigned ==
    pc = "update_endpoint" /\ DOMAIN endpoint_traffic = DeploymentNames

(***************************************************************************)
(* Properties of run() (SpecRun)                                           *)
(***************************************************************************)

\* the token of a string literal
StrToken(s) == CHOOSE tok \in StrTokens : StrValue(tok) = s

RECURSIVE DocsOfLen(_), ElemSeqs(_), MemberSeqs(_)

\* the documents written with exactly n tokens
DocsOfLen(n) ==
    IF n < 1 THEN {}
    ELSE IF n = 1
         THEN {MkStr(StrValue(tok)) : tok \in StrTokens} \cup {MkInt(7)}
    ELSE IF n = 2 THEN {MkList(<<>>), MkDict(<<>>)}
    ELSE {MkList(es) : es \in ElemSeqs(n - 2)}
            \cup {MkDict(ms) : ms \in MemberSeqs(n - 2)}

\* the element lists written, commas included, with exactly n tokens
ElemSeqs(n) ==
    IF n < 1 THEN {}
    ELSE {<<d>> : d \in DocsOfLen(n)} \cup
         UNION {{<<d>> \o r : d \in DocsOfLen(k), r \in ElemSeqs(n - k - 1)} :
                  k \in 1..(n - 2)}

\* the member lists of distinct keys written with exactly n tokens
MemberSeqs(n) ==
    IF n < 3 THEN {}
    ELSE {<<MkItem(StrValue(tok), d)>> :
             tok \in StrTokens, d \in DocsOfLen(n - 2)} \cup
         UNION {{<<MkItem(StrValue(tok), d)>> \o r :
                    d \in DocsOfLen(k),
                    r \in {m \in MemberSeqs(n - k - 3) :
                             \A j \in 1..Len(m) : m[j].s # StrValue(tok)}} :
                  tok \in StrTokens, k \in 1..(n - 6)}

RECURSIVE Dumps(_), DumpsJoin(_)

\* the text of a document
Dumps(d) ==
    IF d.t = "str" THEN <<StrToken(d.s)>>
    ELSE IF d.t = "int" THEN <<"7">>
    ELSE IF d.t = "list" THEN <<"[">> \o DumpsJoin(d.kids) \o <<"]">>
    ELSE IF d.t = "dict" THEN <<"{">> \o DumpsJoin(d.kids) \o <<"}">>
    ELSE <<StrToken(d.s), ":">> \o Dumps(d.kids[1])

DumpsJoin(ds) ==
    IF ds = <<>> THEN <<>>
    ELSE IF Len(ds) = 1 THEN Dumps(ds[1])
    ELSE Dumps(ds[1]) \o <<",">> \o DumpsJoin(Tail(ds))

\* every document whose text fits a request body
AllDocs == UNION {DocsOfLen(n) : n \in 1..MaxBodyLen}

WellFormed(b) == \E d \in AllDocs : Dumps(d) = b

\* C5: on the text of a document run returns the document with exactly the
\* keys answer and input, answer being 42 and input the document itself.
RunEchoesDocument ==
    outcome # NotCalled =>
        \A d \in AllDocs :
            body = Dumps(d) =>
                outcome = Returned(MkDict(<<MkItem("answer", MkInt(42)),
                                            MkItem("input", d)>>))

ExampleAnswered ==
    /\ body = ExampleBody
    /\ outcome.kind = "return"

InitOnceBeforeRun ==
    /\ init_calls <= 1
    /\ spc \in {"ready", "exited"} => init_calls = 1
    /\ \A i \in Threads :
          req[i].pc # "idle" => init_calls = 1 /\ spc \in {"ready", "exited"}

MainRanAfterInit ==
    /\ host = "main"
    /\ spc = "exited"
    /\ req[1].result.kind = "return"

\* C8: `model` is written once, by init() while no run() is in progress, and
\* no step of run() changes it.
ModelWrittenOnceByInit ==
    [][(model' # model \/ model_writes' # model_writes)
          => /\ spc = "init_open"
             /\ model_writes = 0
             /\ model_writes' = 1
             /\ \A i \in Threads : req[i].pc = "idle"]_vars

ConcurrentRunsInFlight ==
    /\ model_writes = 1
    /\ \A i \in Threads : req[i].pc = "loaded"

\* the directory init() takes the model from
ModelDir == IF environ.set THEN Resolve(environ.path) ELSE Cwd

\* <model dir>/model/model.pickle
ModelPlace == ModelDir \o << <<"model">>, <<"model.pickle">> >>

\* C9: init() opens model/model.pickle under the directory named by
\* AZUREML_MODEL_DIR, or under the fallback when the variable is unset; when
\* that file holds an artifact init() completes and `model` is bound to the
\* object pickled in it.
InitLoadsFromModelDir ==
    /\ spc \in {"init_open", "ready", "exited", "crashed"}
          => Resolve(model_path) = ModelPlace
    /\ spc \in {"ready", "exited"}
          => /\ ModelPlace \in DOMAIN files
             /\ model # Unbound
             /\ Dump(model) = files[ModelPlace]
    /\ spc = "crashed"
          => ~(ModelPlace \in DOMAIN files /\ files[ModelPlace] \in Artifacts)

ModelLoadedFromEnvDir ==
    /\ spc = "ready"
    /\ environ.set
    /\ environ.path = <<Sep, "mnt", Sep>>
    /\ model = DummyModel

(***************************************************************************)
(* Properties of train_job.py (SpecTrain)                                  *)
(***************************************************************************)

\* <output root>/model.pickle
ArtifactPlace == Resolve(output_asset.path) \o << <<"model.pickle">> >>

InputListable ==
    (IF input_asset.given THEN Resolve(input_asset.path) ELSE Cwd) \in Dirs

\* C10: when the input root can be listed and the output root exists the
\* script finishes; when it has finished it has written one file and no
\* other, <output root>/model.pickle, and that file unpickles to an object
\* whose attribute dummy is "dummy model.".
TrainWritesOneArtifact ==
    /\ tpc = "done"
          => /\ written = {ArtifactPlace}
             /\ ArtifactPlace \in DOMAIN files
             /\ Load(files[ArtifactPlace]).ok
             /\ \E k \in 1..Len(Load(files[ArtifactPlace]).val.attrs) :
                   Load(files[ArtifactPlace]).val.attrs[k]
                      = <<"dummy", "dummy model.">>
    /\ tpc = "failed"
          => ~(/\ InputListable
               /\ output_asset.given
               /\ Resolve(output_asset.path) \in Dirs)

TrainedIntoDotSlash ==
    /\ tpc = "done"
    /\ output_asset.path = <<".", Sep>>
    /\ input_asset.given

(***************************************************************************)
(* The two scripts in sequence on one filesystem: train_job.py runs to its *)
(* end, then inference.py is started (%run train_job.py, %run inference.py)*)
(***************************************************************************)

\* inference.py is started once the training script has finished
StartScoring ==
    /\ tpc = "done"
    /\ InitCall

PipelineInit ==
    /\ TrainInit
    /\ host = "main"
    /\ environ \in EnvValues
    /\ spc = "start"
    /\ model = Unbound
    /\ model_path = <<>>
    /\ init_calls = 0
    /\ model_writes = 0
    /\ req = [i \in Threads |-> Idle]
    /\ files \in FileSystems

InitPipeline == PipelineInit /\ DeployRest /\ RunRest /\ CredRest

PipelineNext ==
    \/ ListInput
    \/ OpenOutput
    \/ DumpModel
    \/ StartScoring
    \/ InitGetenv
    \/ InitLoad

SpecPipeline == InitPipeline /\ [][PipelineNext]_vars

(***************************************************************************)
(* Properties of the two scripts in sequence (SpecPipeline)                *)
(***************************************************************************)

\* the training output root and the scoring root are one and the same R
SameRoot == environ.set /\ environ.path = output_asset.path

\* the notebook's local defaults: --output-asset ./ and the variable unset
LocalDefaults == ~environ.set /\ output_asset.path = <<".", Sep>>

\* C11: for one and the same root, and for the notebook's local defaults,
\* init() run after the training script opens the file the training script
\* wrote and loads the artifact from it.
InitFindsTrainedArtifact ==
    (tpc = "done" /\ spc \in {"ready", "crashed"}
        /\ (SameRoot \/ LocalDefaults))
      => /\ spc = "ready"
         /\ Resolve(model_path) \in written
         /\ model = DummyModel

(***************************************************************************)
(* Properties of the authentication cells (SpecCred)                       *)
(***************************************************************************)

\* the user is past both credential cells
PastCredentialCells == cpc \in {"client_cell", "calls", "name_error"}

\* the strategies whose token flow was executed
FlowsRun == {s \in Strategies : flows[s] # "none"}

\* C12, as stated: in a run of the code cells in order, none left out,
\* `credential` is created once, by one strategy, and only that strategy's
\* token flow is executed.
OneStrategyInOrder ==
    (PastCredentialCells /\ executed = Strategies)
      => creations = 1 /\ Cardinality(FlowsRun) = 1

\* C12, amended: in a run in which the user runs one of the two credential
\* cells, `credential` is created once, by that cell's strategy, only that
\* strategy's token flow is executed, and the client and every later call
\* use that same credential.
OneStrategyWhenOneCellRun ==
    (PastCredentialCells /\ Cardinality(executed) = 1)
      => /\ creations = 1
         /\ FlowsRun = executed
         /\ credential.kind \in executed
         /\ cpc = "calls" => ml_client = credential
         /\ \A k \in 1..Len(calls) : calls[k] = credential

CliCredentialUsedByCalls ==
    /\ executed = {"AzureCliCredential"}
    /\ Len(calls) = Len(ClientCalls)
    /\ calls[1].kind = "AzureCliCredential"

(***************************************************************************)
(* Properties of the deployer under failure and delay (SpecDeploy)         *)
(***************************************************************************)

\* C13: job submission is fire-and-forget: no step of the workflow waits for
\* the submitted job; whatever the job's state, the endpoint create, the
\* model lookup and the deployment create are taken as soon as the workflow
\* stands before them.
NoStepWaitsForJob ==
    /\ pc = "create_endpoint" => ENABLED CreateEndpoint
    /\ pc = "get_model" => ENABLED GetModel
    /\ pc = "create_deployment" => ENABLED CreateDeployment

\* the lookup of dummy-model was executed, and failed, with the job running
LookupWhileJobRunning ==
    /\ error = "ResourceNotFound"
    /\ job = "running"
    /\ ~registered

\* the workflow is blocked in endpoint_poller.result()
EndpointAwaited == pc = "wait_endpoint" /\ ~local

\* the workflow is blocked in deployment_poller.result()
DeploymentAwaited == pc = "wait_deployment"

\* what follows a failed or unresolved deployment, and a stalled endpoint
DeploymentWaitPassedOnlyOnSuccess ==
    /\ platform_deployment = "failed"
         => /\ pc \in {"wait_deployment", "raised"}
            /\ pc = "raised" => error = "DeploymentProvisioningFailed"
            /\ endpoint_traffic = EmptyTraffic
            /\ platform_traffic = EmptyTraffic
    /\ (EndpointAwaited /\ platform_endpoint = "creating")
         => ~ENABLED WaitEndpoint
    /\ (DeploymentAwaited /\ platform_deployment = "creating")
         => ~ENABLED WaitDeployment

\* what follows a failed endpoint
EndpointFailureStops ==
    platform_endpoint = "failed"
      => /\ platform_deployment = "absent"
         /\ pc \in {"get_model", "wait_endpoint", "raised"}
         /\ pc = "raised"
              => error \in {"ResourceNotFound", "EndpointProvisioningFailed"}

\* C14, as stated: a failed endpoint surfaces from the wait on the endpoint
\* handle and no deployment create is issued; a failed deployment surfaces
\* from the wait on the deployment handle and no traffic is assigned; while
\* an awaited operation is unresolved the workflow takes no step.
WaitsPassedOnlyOnSuccess ==
    /\ EndpointFailureStops
    /\ DeploymentWaitPassedOnlyOnSuccess

\* C14, amended: the same, the endpoint part for local = False.
RemoteWaitsPassedOnlyOnSuccess ==
    /\ ~local => EndpointFailureStops
    /\ DeploymentWaitPassedOnlyOnSuccess

EndpointFailureSurfaced ==
    /\ ~local
    /\ error = "EndpointProvisioningFailed"
    /\ platform_endpoint = "failed"
    /\ platform_deployment = "absent"

\* what a failed lookup leaves behind, apart from the endpoint's state
LookupFailureLeaves ==
    /\ ~local
    /\ pc = "raised"
    /\ platform_deployment = "absent"
    /\ endpoint_traffic = EmptyTraffic
    /\ platform_traffic = EmptyTraffic

\* C15, as stated: after a failed model lookup the workflow has stopped, the
\* endpoint is `creating` or `ready`, there is no deployment and the traffic
\* map is empty.
LookupFailureLeavesLiveEndpoint ==
    error = "ResourceNotFound"
      => /\ LookupFailureLeaves
         /\ platform_endpoint \in {"creating", "ready"}

\* C15, amended: after a failed model lookup the workflow has stopped, the
\* endpoint create is never rolled back (the endpoint is `creating`, `ready`
\* or `failed`, never absent), there is no deployment and the traffic map is
\* empty.
LookupFailureLeavesEndpoint ==
    error = "ResourceNotFound"
      => /\ LookupFailureLeaves
         /\ platform_endpoint \in {"creating", "ready", "failed"}

OrphanEndpointReady ==
    /\ error = "ResourceNotFound"
    /\ platform_endpoint = "ready"
    /\ platform_deployment = "absent"
    /\ endpoint_traffic = EmptyTraffic

====
